---------------------------- MODULE Spec2Model ----------------------------
(***************************************************************************)
(* Model of gabriel1200/shoturl_collect.                                   *)
(*                                                                         *)
(*   src/shot_collect.py : load_all_shot_data -> merge_with_uuid_data ->   *)
(*                         save_data_by_year_and_team  (specification Spec)*)
(*   src/collect_data.py : combine_shot_data    (specification SpecCombine)*)
(*                                                                         *)
(* A pandas DataFrame is a record [cols, rows]: cols is the sequence of    *)
(* column labels, rows the sequence of rows, each row a function from the  *)
(* column labels to cell values.  A row also carries the history field     *)
(* "_src" (the file and line it was read from) and, once joined, "_map"    *)
(* (the line of data_backup.csv it was joined with, 0 for none); they are  *)
(* never columns and no operation of the program reads them.               *)
(***************************************************************************)
EXTENDS Integers, Sequences, FiniteSets, TLC

VARIABLES
    pc,          \* position in the script being run
    registry,    \* GAME_DATES['TEAM_ID'], shot_collect.py:5
    years,       \* the years argument of load_all_shot_data
    shotFiles,   \* <base>/<year>[ps]/<team>.csv, the shot files on disk
    table,       \* all_shot_data, then shot_data_with_uuid
    outFiles,    \* shot_data_with_urls/<year>/<team>.csv
    backup,      \* data_backup.csv as merge_with_uuid_data read it
    saves,       \* how many times save_data_by_year_and_team has run
    baseDir,     \* collect_data.py: the directory combine_shot_data walks
    outputFile   \* collect_data.py: all_shot_data_combined.csv

vars == <<pc, registry, years, shotFiles, table, outFiles, backup, saves,
          baseDir, outputFile>>

---------------------------------------------------------------------------
(* Bounds of the model *)

MaxFiles == 2        \* shot files present on disk
MaxRows == 2         \* rows in one shot file
MaxRegistry == 2     \* rows of GAME_DATES
MaxSaves == 2        \* runs of save_data_by_year_and_team on one table
MaxMapRows == 2      \* rows of data_backup.csv
MaxCsvFiles == 2     \* files found by the combiner's glob
MaxCsvRows == 3      \* rows in all of them together

Years == {2014, 2015}
Teams == {1, 2}

---------------------------------------------------------------------------
(* Cell values.  n is the number of an int or of a float (the model only   *)
(* meets floats with an integral value: they arise from ints by dtype      *)
(* promotion), s the text of a str.                                        *)

I(n) == [k |-> "int", n |-> n, s |-> ""]
F(n) == [k |-> "float", n |-> n, s |-> ""]
S(s) == [k |-> "str", n |-> 0, s |-> s]
NaN == [k |-> "nan", n |-> 0, s |-> ""]
None == [k |-> "none", n |-> 0, s |-> ""]

Digit(d) ==
    CASE d = 0 -> "0" [] d = 1 -> "1" [] d = 2 -> "2" [] d = 3 -> "3"
      [] d = 4 -> "4" [] d = 5 -> "5" [] d = 6 -> "6" [] d = 7 -> "7"
      [] d = 8 -> "8" [] d = 9 -> "9"

RECURSIVE NatStr(_)
NatStr(n) == IF n < 10 THEN Digit(n) ELSE NatStr(n \div 10) \o Digit(n % 10)

\* str(v) and the f-string conversion {v}
PyStr(v) ==
    CASE v.k = "int" -> NatStr(v.n)
      [] v.k = "float" -> NatStr(v.n) \o ".0"
      [] v.k = "str" -> v.s
      [] v.k = "nan" -> "nan"
      [] v.k = "none" -> "None"

\* int(v) of a number
PyInt(v) == v.n

\* pd.isna(v)
isna(v) == v.k \in {"nan", "none"}

---------------------------------------------------------------------------
(* Sequences *)

Range(s) == {s[i] : i \in DOMAIN s}

\* the subsequence of s at the positions in keep
SelIdx(s, keep) ==
    LET sel[i \in 0..Len(s)] ==
            IF i = 0 THEN <<>>
            ELSE IF i \in keep THEN Append(sel[i - 1], s[i]) ELSE sel[i - 1]
    IN  sel[Len(s)]

Flatten(ss) ==
    LET fl[i \in 0..Len(ss)] == IF i = 0 THEN <<>> ELSE fl[i - 1] \o ss[i]
    IN  fl[Len(ss)]

\* Series.drop_duplicates(): the first occurrence of each value, in order
drop_duplicates(s) ==
    SelIdx(s, {i \in DOMAIN s : \A j \in 1..(i - 1) : s[j] # s[i]})

---------------------------------------------------------------------------
(* DataFrames *)

\* v itself: the comparison makes TLC compute v once, where it would
\* otherwise compute each cell of v again at every use
Eval(v) == IF v = v THEN v ELSE v

EmptyDataFrame == [cols |-> <<>>, rows |-> <<>>]

\* DataFrame.empty: some axis has length 0
empty(df) == Len(df.cols) = 0 \/ Len(df.rows) = 0

\* df[c] = v for a scalar v: a new column goes last, an old one keeps its place
SetCol(df, c, v) ==
    Eval(
      [cols |-> IF c \in Range(df.cols) THEN df.cols ELSE Append(df.cols, c),
       rows |-> [i \in DOMAIN df.rows |->
                   [x \in DOMAIN df.rows[i] \cup {c} |->
                       IF x = c THEN v ELSE df.rows[i][x]]]])

\* df.drop(columns=cs)
DropCols(df, cs) ==
    Eval(
      [cols |-> SelIdx(df.cols, {i \in DOMAIN df.cols : df.cols[i] \notin cs}),
       rows |-> [i \in DOMAIN df.rows |->
                   [x \in DOMAIN df.rows[i] \ cs |-> df.rows[i][x]]]])

\* df[c] = df[c].astype(str) / .astype(int)
AsTypeStr(df, c) ==
    Eval(
      [df EXCEPT !.rows = [i \in DOMAIN df.rows |->
                              [df.rows[i] EXCEPT ![c] = S(PyStr(@))]]])

AsTypeInt(df, c) ==
    Eval(
      [df EXCEPT !.rows = [i \in DOMAIN df.rows |->
                              [df.rows[i] EXCEPT ![c] = I(PyInt(@))]]])

\* A column has one dtype: an int64 column that holds a missing value or a
\* float becomes float64; a column that holds a str is object and keeps its
\* values as they are.
UnifyDtypes(df) ==
    Eval(
      LET kinds(c) == {df.rows[i][c].k : i \in DOMAIN df.rows}
          toFloat == Eval({c \in Range(df.cols) :
                              /\ kinds(c) \subseteq {"int", "float", "nan"}
                              /\ kinds(c) \cap {"float", "nan"} # {}})
      IN  [df EXCEPT !.rows = [i \in DOMAIN df.rows |->
              [x \in DOMAIN df.rows[i] |->
                  IF x \in toFloat /\ df.rows[i][x].k = "int"
                  THEN F(df.rows[i][x].n) ELSE df.rows[i][x]]]])

\* pd.concat(dfs, ignore_index=True): the union of the columns in order of
\* first appearance, the rows in order, a missing cell NaN
concat(dfs) ==
    LET cols == drop_duplicates(Flatten([i \in DOMAIN dfs |-> dfs[i].cols]))
        widen(r) == [x \in Range(cols) \cup {"_src"} |->
                        IF x \in DOMAIN r THEN r[x] ELSE NaN]
    IN  UnifyDtypes(
          [cols |-> cols,
           rows |-> Flatten([i \in DOMAIN dfs |->
                       [j \in DOMAIN dfs[i].rows |-> widen(dfs[i].rows[j])]])])

---------------------------------------------------------------------------
(* The shot files on disk *)

ShotPaths == [year : Years, ps : BOOLEAN, team : Teams]

\* what the model keeps of a file: whether it exists, whether it has a year
\* column, and how many shots it holds
NoShotFile == [exists |-> FALSE, hasYear |-> FALSE, n |-> 0]

ShotHeader(hasYear) ==
    IF hasYear THEN <<"GAME_ID", "year", "SHOT_ID", "GAME_EVENT_ID">>
    ELSE <<"GAME_ID", "SHOT_ID", "GAME_EVENT_ID">>

\* the i-th shot of a file: game 101, events 5, 6, ...; a file with a year
\* column holds the season's starting year
ShotRow(p, hasYear, i) ==
    [x \in Range(ShotHeader(hasYear)) \cup {"_src"} |->
        CASE x = "GAME_ID" -> I(101)
          [] x = "GAME_EVENT_ID" -> I(4 + i)
          [] x = "SHOT_ID" -> I(i)
          [] x = "year" -> I(p.year - 1)
          [] x = "_src" -> [year |-> p.year, ps |-> p.ps, team |-> p.team, line |-> i]]

\* pd.read_csv(path) of a shot file that exists
read_csv(p) ==
    [cols |-> ShotHeader(shotFiles[p].hasYear),
     rows |-> [i \in 1..shotFiles[p].n |-> ShotRow(p, shotFiles[p].hasYear, i)]]

---------------------------------------------------------------------------
(* shot_collect.py: the Shot Loader *)

\* the body of the loop over unique_teams, lines 23-48: the frame appended
\* to all_shot_data for the team, or <<>> when neither file exists
LoadTeam(year, team_id) ==
    LET reg_season_path == [year |-> year, ps |-> FALSE, team |-> team_id]
        post_season_path == [year |-> year, ps |-> TRUE, team |-> team_id]
        season_dfs ==
            (IF shotFiles[reg_season_path].exists
             THEN <<SetCol(read_csv(reg_season_path), "season_type", S("REG"))>>
             ELSE <<>>)
            \o (IF shotFiles[post_season_path].exists
                THEN <<SetCol(read_csv(post_season_path), "season_type", S("PS"))>>
                ELSE <<>>)
    IN  IF season_dfs # <<>>
        THEN <<SetCol(SetCol(concat(season_dfs), "year_source", I(year)),
                      "team_id", I(team_id))>>
        ELSE <<>>

\* line 19 without drop_duplicates: a team listed twice is loaded twice
unique_teams_repeated == registry

unique_teams == drop_duplicates(registry)

load_all_shot_data_for_year(year) ==
    LET all_shot_data == Flatten([t \in DOMAIN unique_teams |->
                                     LoadTeam(year, unique_teams[t])])
    IN  IF all_shot_data = <<>> THEN EmptyDataFrame ELSE concat(all_shot_data)

load_all_shot_data ==
    LET year_data == [y \in DOMAIN years |-> load_all_shot_data_for_year(years[y])]
        all_years_data == SelIdx(year_data, {y \in DOMAIN years : ~empty(year_data[y])})
    IN  IF all_years_data = <<>> THEN EmptyDataFrame ELSE concat(all_years_data)

---------------------------------------------------------------------------
(* data_backup.csv *)

BackupCols ==
    <<"game_id", "action_number", "season", "year", "month", "day",
      "api_game_id", "uuid">>

MapRow(game, action, y, m, d, api, uuid) ==
    [x \in Range(BackupCols) |->
        CASE x = "game_id" -> I(game)
          [] x = "action_number" -> I(action)
          [] x = "season" -> I(2020)
          [] x = "year" -> I(y)
          [] x = "month" -> I(m)
          [] x = "day" -> I(d)
          [] x = "api_game_id" -> api
          [] x = "uuid" -> uuid]

\* the lines data_backup.csv may hold: a video, the sentinel, a second line
\* for event 5 (another date, a host id that is not a number), no token
MapCatalog ==
    {MapRow(101, 5, 2021, 3, 4, I(9999), S("abc")),
     MapRow(101, 6, 2021, 3, 4, I(9999), S("NO_VIDEO")),
     MapRow(101, 5, 2015, 12, 25, S("G7"), S("xyz")),
     MapRow(101, 6, 2014, 1, 2, I(9999), NaN)}

\* pd.read_csv infers one dtype per column: a column with a cell that is not
\* a number is object and holds every cell as text
read_csv_infer(rows) ==
    LET isText(c) == \E i \in DOMAIN rows : rows[i][c].k = "str"
    IN  UnifyDtypes(
          [cols |-> BackupCols,
           rows |-> [i \in DOMAIN rows |->
                       [x \in DOMAIN rows[i] |->
                           IF isText(x) /\ rows[i][x].k = "int"
                           THEN S(NatStr(rows[i][x].n)) ELSE rows[i][x]]]])

BackupTables ==
    {read_csv_infer(rows) : rows \in UNION {[1..n -> MapCatalog] : n \in 0..MaxMapRows}}

---------------------------------------------------------------------------
(* shot_collect.py: the Enrichment Joiner *)

\* df[cs]
SelectCols(df, cs) ==
    Eval(
      [cols |-> cs,
       rows |-> [i \in DOMAIN df.rows |-> [x \in Range(cs) |-> df.rows[i][x]]]])

\* how='inner': a left row without a match gives no row
InnerJoinRow(l, right, left_on, right_on) ==
    LET hits == {j \in DOMAIN right.rows :
                    \A q \in DOMAIN left_on : l[left_on[q]] = right.rows[j][right_on[q]]}
        joined(j) == [x \in DOMAIN l \cup Range(right.cols) \cup {"_map"} |->
                        IF x = "_map" THEN j
                        ELSE IF x \in DOMAIN l THEN l[x] ELSE right.rows[j][x]]
    IN  SelIdx([j \in DOMAIN right.rows |-> joined(j)], hits)

\* the rows one left row gives in pd.merge(left, right, how='left'): one per
\* matching right row, in the right table's order, or one with the right
\* columns missing.  "_map" records the right row joined (0: none).
LeftJoinRow(l, right, left_on, right_on) ==
    LET hits == {j \in DOMAIN right.rows :
                    \A q \in DOMAIN left_on : l[left_on[q]] = right.rows[j][right_on[q]]}
        joined(j) == [x \in DOMAIN l \cup Range(right.cols) \cup {"_map"} |->
                        IF x = "_map" THEN j
                        ELSE IF x \in DOMAIN l THEN l[x]
                        ELSE IF j = 0 THEN NaN ELSE right.rows[j][x]]
    IN  IF hits = {} THEN <<joined(0)>>
        ELSE SelIdx([j \in DOMAIN right.rows |-> joined(j)], hits)

\* pd.merge(left, right, left_on=..., right_on=..., how='left')
merge(left, right, left_on, right_on) ==
    Eval(
      UnifyDtypes(
        [cols |-> left.cols \o right.cols,
         rows |-> Flatten([i \in DOMAIN left.rows |->
                     LeftJoinRow(left.rows[i], right, left_on, right_on)])]))

VideoHost == "https://videos.nba.com/nba/pbp/media/"

\* lines 131-134
generate_video_url(row) ==
    IF isna(row["uuid"]) \/ row["uuid"] = S("NO_VIDEO")
    THEN None
    ELSE S(VideoHost \o NatStr(PyInt(row["year"])) \o "/"
           \o NatStr(PyInt(row["month"])) \o "/"
           \o NatStr(PyInt(row["day"])) \o "/"
           \o PyStr(row["api_game_id"]) \o "/"
           \o NatStr(PyInt(row["GAME_EVENT_ID"])) \o "/"
           \o PyStr(row["uuid"]) \o "_1280x720.mp4")

\* line 136: merged_df['video_url'] = merged_df.apply(generate_video_url, axis=1)
ApplyVideoUrl(df) ==
    Eval(
      [cols |-> IF "video_url" \in Range(df.cols) THEN df.cols
                ELSE Append(df.cols, "video_url"),
       rows |-> [i \in DOMAIN df.rows |->
                   [x \in DOMAIN df.rows[i] \cup {"video_url"} |->
                       IF x = "video_url" THEN generate_video_url(df.rows[i])
                       ELSE df.rows[i][x]]]])

\* lines 107-136, backup_df being what line 102 read
merge_with_uuid_data(shot_data_df, backup_df) ==
    LET noYear == IF "year" \in Range(shot_data_df.cols)
                  THEN DropCols(shot_data_df, {"year"}) ELSE shot_data_df
        shots == AsTypeInt(AsTypeStr(noYear, "GAME_ID"), "GAME_EVENT_ID")
        uuids == AsTypeInt(AsTypeStr(backup_df, "game_id"), "action_number")
        merged_df ==
            merge(shots,
                  SelectCols(uuids, <<"game_id", "action_number", "year", "month",
                                      "day", "api_game_id", "uuid">>),
                  <<"GAME_ID", "GAME_EVENT_ID">>, <<"game_id", "action_number">>)
    IN  ApplyVideoUrl(DropCols(merged_df, {"game_id", "action_number"}))

---------------------------------------------------------------------------
(* shot_collect.py: the Partition Writer *)

\* collect_data.py:15: base_dir is not a directory
NoDir == [exists |-> FALSE, files |-> <<>>]

NoFile == [exists |-> FALSE, header |-> <<>>, lines |-> <<>>, src |-> <<>>]

\* the text to_csv writes for a cell
CsvCell(v) ==
    CASE v.k = "int" -> NatStr(v.n)
      [] v.k = "float" -> NatStr(v.n) \o ".0"
      [] v.k = "str" -> v.s
      [] v.k \in {"nan", "none"} -> ""

\* mode='a': the lines are added to what the file held
to_csv_append(old, df) ==
    [exists |-> TRUE,
     header |-> df.cols,
     lines |-> old.lines \o [i \in DOMAIN df.rows |->
                  [c \in DOMAIN df.cols |-> CsvCell(df.rows[i][df.cols[c]])]],
     src |-> old.src \o [i \in DOMAIN df.rows |-> df.rows[i]["_src"]]]

\* df.to_csv(path, index=False): the file is opened for writing, so what it
\* held (old) is gone
to_csv(old, df) ==
    [exists |-> TRUE,
     header |-> df.cols,
     lines |-> [i \in DOMAIN df.rows |->
                  [c \in DOMAIN df.cols |-> CsvCell(df.rows[i][df.cols[c]])]],
     src |-> [i \in DOMAIN df.rows |-> df.rows[i]["_src"]]]

\* grouping by the year the join brought instead of the source year
GroupKeysJoinedYear == <<"year", "team_id">>

\* line 170: the keys the frame is grouped by
GroupKeys == <<"year_source", "team_id">>

\* a group per year only: every team of the year in each file of the year
get_group_of_year(df, key) ==
    [df EXCEPT !.rows = SelIdx(df.rows,
        {i \in DOMAIN df.rows : df.rows[i]["year_source"] = I(key[1])})]

\* the group of key (year, team_id): its rows, in the frame's order
get_group(df, key) ==
    [df EXCEPT !.rows = SelIdx(df.rows,
        {i \in DOMAIN df.rows :
            \A q \in DOMAIN GroupKeys : df.rows[i][GroupKeys[q]] = I(key[q])})]

\* the columns left in the order of the frame
final_columns_as_is(cols) == cols

\* line 181
final_columns(cols) ==
    <<"SHOT_ID", "video_url">>
    \o SelIdx(cols, {i \in DOMAIN cols : cols[i] \notin {"SHOT_ID", "video_url"}})

\* lines 166-167
CoerceKeys(df) == AsTypeInt(AsTypeInt(df, "year_source"), "team_id")

\* lines 170-185: the output directory after the loop over the groups; the
\* file of group (year, team_id) is <year>/<team_id>.csv
save_data_by_year_and_team(merged_df, dir) ==
    [p \in DOMAIN dir |->
        LET group_df == get_group(merged_df, p)
        IN  IF group_df.rows = <<>> THEN dir[p]
            ELSE to_csv(dir[p], [group_df EXCEPT !.cols = final_columns(@)])]

---------------------------------------------------------------------------
(* Specification of the collection script, shot_collect.py:190-196 *)

\* the file systems: up to MaxFiles shot files, all with a year column or all
\* without, each holding one of the numbers of shots in `sizes`
ShotFileSystems(yearColumn, sizes) ==
    UNION {UNION {{[p \in ShotPaths |->
                      IF p \in present
                      THEN [exists |-> TRUE, hasYear |-> h, n |-> f[p]]
                      ELSE NoShotFile] : f \in [present -> sizes]} :
                   h \in yearColumn} :
           present \in {q \in SUBSET ShotPaths : Cardinality(q) <= MaxFiles}}

InitScript(registries, yearLists, yearColumn, sizes) ==
    /\ pc = "start"
    /\ registry \in registries
    /\ years \in yearLists
    /\ shotFiles \in ShotFileSystems(yearColumn, sizes)
    /\ table = EmptyDataFrame
    /\ outFiles = [p \in Years \X Teams |-> NoFile]
    /\ backup = EmptyDataFrame
    /\ saves = 0
    /\ baseDir = NoDir
    /\ outputFile = NoFile

Init == InitScript({<<1, 2>>}, {<<2014, 2015>>}, BOOLEAN, {MaxRows})

\* line 193
LoadAllShotData ==
    /\ pc = "start"
    /\ table' = load_all_shot_data
    /\ pc' = IF empty(table') THEN "done" ELSE "loaded"
    /\ UNCHANGED <<registry, years, shotFiles, outFiles, backup, saves,
                   baseDir, outputFile>>

\* line 195
MergeWithUuidData ==
    /\ pc = "loaded"
    /\ \E backup_df \in BackupTables :
          /\ backup' = backup_df
          /\ table' = merge_with_uuid_data(table, backup_df)
    /\ pc' = "merged"
    /\ UNCHANGED <<registry, years, shotFiles, outFiles, saves, baseDir, outputFile>>

\* line 196, and the same call made again on the same table and directory
SaveDataByYearAndTeam ==
    /\ pc \in {"merged", "saved"}
    /\ saves < MaxSaves
    /\ IF {"year_source", "team_id"} \subseteq Range(table.cols)
       THEN /\ table' = CoerceKeys(table)
            /\ outFiles' = save_data_by_year_and_team(table', outFiles)
       ELSE UNCHANGED <<table, outFiles>>
    /\ saves' = saves + 1
    /\ pc' = "saved"
    /\ UNCHANGED <<registry, years, shotFiles, backup, baseDir, outputFile>>

Next == LoadAllShotData \/ MergeWithUuidData \/ SaveDataByYearAndTeam

Spec == Init /\ [][Next]_vars

---------------------------------------------------------------------------
(* Specification of the Shot Loader alone, over every registry and every   *)
(* list of years                                                           *)

Registries == UNION {[1..n -> Teams] : n \in 0..MaxRegistry}

YearLists ==
    {ys \in UNION {[1..n -> Years] : n \in 0..Cardinality(Years)} :
        \A i, j \in DOMAIN ys : ys[i] = ys[j] => i = j}

InitLoad == InitScript(Registries, YearLists, {FALSE}, {0, MaxRows})

NextLoad == LoadAllShotData

SpecLoad == InitLoad /\ [][NextLoad]_vars

---------------------------------------------------------------------------
(* collect_data.py: the Combiner *)

CsvCols == <<"SHOT_ID", "video_url", "year", "month", "day">>

CsvRow(shot, y, m, d) ==
    [x \in Range(CsvCols) |->
        CASE x = "SHOT_ID" -> I(shot)
          [] x = "video_url" -> IF y = 0 THEN NaN ELSE S("u")
          [] x = "year" -> IF y = 0 THEN NaN ELSE I(y)
          [] x = "month" -> IF y = 0 THEN NaN ELSE I(m)
          [] x = "day" -> IF y = 0 THEN NaN ELSE I(d)]

\* the lines a partition file may hold; the last one is a shot that no line
\* of data_backup.csv matched: it has no date
CsvCatalog ==
    {CsvRow(2, 2021, 3, 4), CsvRow(1, 2021, 3, 4), CsvRow(1, 2021, 2, 9),
     CsvRow(3, 2020, 12, 25), CsvRow(1, 0, 0, 0)}

\* pd.read_csv(filename) of file number f of the directory, holding `rows`
CsvFile(f, rows) ==
    [readable |-> TRUE,
     df |-> UnifyDtypes(
              [cols |-> CsvCols,
               rows |-> [j \in DOMAIN rows |->
                           [x \in DOMAIN rows[j] \cup {"_src"} |->
                               IF x = "_src" THEN [file |-> f, line |-> j]
                               ELSE rows[j][x]]]])]

Unreadable == [readable |-> FALSE, df |-> EmptyDataFrame]

\* the directories: up to MaxCsvFiles files in the order glob returns them,
\* holding up to MaxCsvRows lines together, some of them unreadable
CsvDirs(maxFiles, maxRows) ==
    {NoDir} \cup
    {[exists |-> TRUE,
      files |-> [f \in 1..c.nfiles |->
                   IF c.readable[f]
                   THEN CsvFile(f, SelIdx(c.rows, {j \in DOMAIN c.rows : c.owner[j] = f}))
                   ELSE Unreadable]] :
        c \in UNION {[nfiles : {nf}, rows : [1..n -> CsvCatalog],
                      owner : {o \in [1..n -> 1..nf] :
                                 \A i, j \in 1..n : i < j => o[i] <= o[j]},
                      readable : [1..nf -> BOOLEAN]] :
                        nf \in 0..maxFiles, n \in 0..maxRows}}

StaleFile == [exists |-> TRUE, header |-> <<"stale">>, lines |-> <<>>, src |-> <<>>]

\* the order of two cells under sort_values: -1, 0 or 1; a missing value
\* goes after every number (na_position='last')
CmpCell(a, b) ==
    IF isna(a) \/ isna(b)
    THEN (IF isna(a) /\ isna(b) THEN 0 ELSE IF isna(b) THEN -1 ELSE 1)
    ELSE IF a.n < b.n THEN -1 ELSE IF a.n = b.n THEN 0 ELSE 1

\* the order of two rows under the keys `by`, the first key deciding first
RECURSIVE CmpRows(_, _, _)
CmpRows(a, b, by) ==
    IF by = <<>> THEN 0
    ELSE IF CmpCell(a[Head(by)], b[Head(by)]) # 0 THEN CmpCell(a[Head(by)], b[Head(by)])
    ELSE CmpRows(a, b, Tail(by))

\* a sort that is not stable: rows with equal keys come out reversed
sort_values_unstable(df, by) ==
    LET n == Len(df.rows)
        before(j, i) == CmpRows(df.rows[j], df.rows[i], by) < 0
                        \/ (CmpRows(df.rows[j], df.rows[i], by) = 0 /\ j > i)
        place(i) == Cardinality({j \in 1..n : before(j, i)}) + 1
    IN  Eval([df EXCEPT !.rows = [r \in 1..n |-> df.rows[CHOOSE i \in 1..n : place(i) = r]]])

\* df.sort_values(by=[...]) on several keys: a lexsort, which keeps rows
\* with equal keys in the order they had
sort_values(df, by) ==
    LET n == Len(df.rows)
        before(j, i) == CmpRows(df.rows[j], df.rows[i], by) < 0
                        \/ (CmpRows(df.rows[j], df.rows[i], by) = 0 /\ j < i)
        place(i) == Cardinality({j \in 1..n : before(j, i)}) + 1
    IN  Eval([df EXCEPT !.rows = [r \in 1..n |-> df.rows[CHOOSE i \in 1..n : place(i) = r]]])

SortKeys == <<"year", "month", "day", "SHOT_ID">>

\* the loop without its try: it ends at the first file that cannot be read
ReadUntilFailure(all_csv_files) ==
    LET ok == SelIdx(all_csv_files,
                     {f \in DOMAIN all_csv_files :
                         \A g \in 1..f : all_csv_files[g].readable})
    IN  [f \in DOMAIN ok |-> ok[f].df]

\* lines 31-39: the frames of the files that could be read
ReadAll(all_csv_files) ==
    LET ok == SelIdx(all_csv_files,
                     {f \in DOMAIN all_csv_files : all_csv_files[f].readable})
    IN  [f \in DOMAIN ok |-> ok[f].df]

\* lines 42-44 left out, an empty frame written instead
combine_shot_data_always_writes(dir, old) ==
    IF ~dir.exists THEN old
    ELSE IF dir.files = <<>> THEN old
    ELSE LET df_list == ReadAll(dir.files)
         IN  IF df_list = <<>> THEN to_csv(old, EmptyDataFrame)
             ELSE to_csv(old, sort_values(concat(df_list), SortKeys))

\* lines 14-52: the output file after the run, `old` being the file before
combine_shot_data(dir, old) ==
    IF ~dir.exists THEN old
    ELSE IF dir.files = <<>> THEN old
    ELSE LET df_list == ReadAll(dir.files)
         IN  IF df_list = <<>> THEN old
             ELSE to_csv(old, sort_values(concat(df_list), SortKeys))

InitCombine ==
    /\ pc = "combine"
    /\ baseDir \in CsvDirs(MaxCsvFiles, MaxCsvRows)
    /\ outputFile \in {NoFile, StaleFile}
    /\ registry = <<>>
    /\ years = <<>>
    /\ shotFiles = [p \in ShotPaths |-> NoShotFile]
    /\ table = EmptyDataFrame
    /\ outFiles = [p \in Years \X Teams |-> NoFile]
    /\ backup = EmptyDataFrame
    /\ saves = 0

\* collect_data.py:60
CombineShotData ==
    /\ pc = "combine"
    /\ outputFile' = combine_shot_data(baseDir, outputFile)
    /\ pc' = "combined"
    /\ UNCHANGED <<registry, years, shotFiles, table, outFiles, backup, saves, baseDir>>

NextCombine == CombineShotData

SpecCombine == InitCombine /\ [][NextCombine]_vars

---------------------------------------------------------------------------
(* Properties *)

IndexOf(s, c) == CHOOSE i \in DOMAIN s : s[i] = c

\* the text of column c in line j of a written file
Cell(file, j, c) == file.lines[j][IndexOf(file.header, c)]

Joined == pc \in {"merged", "saved"}

NoToken(r) == isna(r["uuid"]) \/ r["uuid"] = S("NO_VIDEO")

\* the URL of the template for line m of data_backup.csv and a shot's event
TemplateUrl(m, event) ==
    VideoHost \o NatStr(m["year"].n) \o "/" \o NatStr(m["month"].n) \o "/"
    \o NatStr(m["day"].n) \o "/"
    \o (IF m["api_game_id"].k = "str" THEN m["api_game_id"].s
        ELSE NatStr(m["api_game_id"].n))
    \o "/" \o NatStr(event.n) \o "/" \o m["uuid"].s \o "_1280x720.mp4"

\* C1: in the table merge_with_uuid_data returns, video_url is null exactly
\* when the joined token is null or "NO_VIDEO", and otherwise it is the
\* template filled with the year, month, day and api_game_id of the joined
\* line of data_backup.csv, the shot's GAME_EVENT_ID and the token.
C1_VideoUrlIsTemplate ==
    Joined =>
        \A i \in DOMAIN table.rows :
            LET r == table.rows[i]
            IN  /\ isna(r["video_url"]) <=> NoToken(r)
                /\ ~NoToken(r) =>
                     /\ r["_map"] # 0
                     /\ r["video_url"] = S(TemplateUrl(backup.rows[r["_map"]],
                                                      r["GAME_EVENT_ID"]))

UniqueKeys(df) ==
    \A i, j \in DOMAIN df.rows :
        (df.rows[i]["game_id"] = df.rows[j]["game_id"]
         /\ df.rows[i]["action_number"] = df.rows[j]["action_number"]) => i = j

\* C2: when no two lines of data_backup.csv have the same (game_id,
\* action_number), merge_with_uuid_data returns as many rows as the shot
\* table it was given, and every shot row is in the result exactly once, in
\* its place, matched or not.
C2_LeftJoinKeepsEveryShot ==
    [][(pc = "loaded" /\ pc' = "merged" /\ UniqueKeys(backup')) =>
          /\ Len(table'.rows) = Len(table.rows)
          /\ \A i \in DOMAIN table.rows :
                /\ table'.rows[i]["_src"] = table.rows[i]["_src"]
                /\ table'.rows[i]["SHOT_ID"] = table.rows[i]["SHOT_ID"]
                /\ Cardinality({j \in DOMAIN table'.rows :
                      table'.rows[j]["_src"] = table.rows[i]["_src"]}) = 1]_vars

C2_Witness ==
    /\ pc = "merged"
    /\ UniqueKeys(backup)
    /\ Len(backup.rows) >= 1
    /\ \E i, j \in DOMAIN table.rows :
          table.rows[i]["_map"] = 0 /\ table.rows[j]["_map"] # 0

\* C3: after save_data_by_year_and_team, every line of the file
\* <year>/<team>.csv has that year as year_source and that team as team_id.
C3_FileHoldsOnlyItsGroup ==
    pc = "saved" =>
        \A p \in DOMAIN outFiles :
            outFiles[p].exists =>
                \A j \in DOMAIN outFiles[p].lines :
                    /\ Cell(outFiles[p], j, "year_source") = NatStr(p[1])
                    /\ Cell(outFiles[p], j, "team_id") = NatStr(p[2])

C3_Witness ==
    /\ pc = "saved"
    /\ \E p, q \in DOMAIN outFiles :
          /\ p[1] = q[1] /\ p[2] # q[2]
          /\ outFiles[p].lines # <<>> /\ outFiles[q].lines # <<>>

\* C4: in every written file the first column is SHOT_ID, the second is
\* video_url, the others follow in the order they have in the table, each
\* once, and every line holds the cells of its row in that order.
C4_ShotIdAndUrlLead ==
    pc = "saved" =>
        \A p \in DOMAIN outFiles :
            outFiles[p].exists =>
                LET h == outFiles[p].header
                    others == SelIdx(table.cols, {i \in DOMAIN table.cols :
                                  table.cols[i] \notin {"SHOT_ID", "video_url"}})
                IN  /\ h[1] = "SHOT_ID"
                    /\ h[2] = "video_url"
                    /\ Len(h) = Len(table.cols)
                    /\ SubSeq(h, 3, Len(h)) = others
                    /\ \A a, b \in DOMAIN h : h[a] = h[b] => a = b
                    /\ \A j \in DOMAIN outFiles[p].lines :
                          \E i \in DOMAIN table.rows :
                              /\ table.rows[i]["_src"] = outFiles[p].src[j]
                              /\ \A c \in DOMAIN h :
                                    outFiles[p].lines[j][c] = CsvCell(table.rows[i][h[c]])

C4_Witness ==
    /\ pc = "saved"
    /\ table.cols[1] # "SHOT_ID"
    /\ table.cols[Len(table.cols)] = "video_url"
    /\ \E p \in DOMAIN outFiles : Len(outFiles[p].lines) >= 2

\* C5: a second run of save_data_by_year_and_team on the same table and
\* directory leaves every file as the first run left it.
C5_SecondSaveChangesNothing ==
    [][(saves >= 1 /\ saves' = saves + 1) => outFiles' = outFiles]_vars

C5_Witness ==
    /\ saves = 2
    /\ \E p, q \in DOMAIN outFiles :
          p # q /\ outFiles[p].lines # <<>> /\ outFiles[q].lines # <<>>

\* C9: year_source is the year of the loop the row was loaded in, whatever
\* year the join brought and whatever year column the shot file had; the
\* joined year is a column of its own; and the row is written to the file of
\* its source year and team, and to no other.
C9_SourceYearKept ==
    /\ Joined =>
          /\ {"year", "year_source"} \subseteq Range(table.cols)
          /\ \A i \in DOMAIN table.rows :
                LET r == table.rows[i]
                IN  /\ r["year_source"] = I(r["_src"].year)
                    /\ r["_map"] # 0 => r["year"].n = backup.rows[r["_map"]]["year"].n
                    /\ r["_map"] = 0 => isna(r["year"])
    /\ pc = "saved" =>
          \A i \in DOMAIN table.rows :
              LET src == table.rows[i]["_src"]
              IN  \A p \in DOMAIN outFiles :
                      (\E j \in DOMAIN outFiles[p].src : outFiles[p].src[j] = src)
                      <=> p = <<src.year, src.team>>

C9_Witness ==
    /\ pc = "saved"
    /\ \E i \in DOMAIN table.rows :
          LET r == table.rows[i]
          IN  /\ r["_map"] # 0
              /\ r["year"].n # r["year_source"].n
              /\ shotFiles[[year |-> r["_src"].year, ps |-> r["_src"].ps,
                            team |-> r["_src"].team]].hasYear

\* the files the loops of load_all_shot_data look for and find
Found ==
    {p \in ShotPaths : /\ shotFiles[p].exists
                       /\ p.year \in Range(years)
                       /\ p.team \in Range(registry)}

\* C10: load_all_shot_data returns the rows of the files that exist for the
\* years and teams asked for, each once and with its cells, tagged REG or PS
\* by the file it came from and with the team and year of its file; files
\* that do not exist give nothing, and with no file the table is empty.
C10_LoaderReturnsTheFilesRows ==
    pc \in {"loaded", "done"} =>
        /\ \A p \in Found : \A n \in 1..shotFiles[p].n :
              Cardinality({i \in DOMAIN table.rows :
                  table.rows[i]["_src"] =
                      [year |-> p.year, ps |-> p.ps, team |-> p.team, line |-> n]}) = 1
        /\ \A i \in DOMAIN table.rows :
              LET r == table.rows[i]
                  p == [year |-> r["_src"].year, ps |-> r["_src"].ps,
                        team |-> r["_src"].team]
              IN  /\ p \in Found
                  /\ r["_src"].line \in 1..shotFiles[p].n
                  /\ r["season_type"] = S(IF p.ps THEN "PS" ELSE "REG")
                  /\ r["team_id"] = I(p.team)
                  /\ r["year_source"] = I(p.year)
                  /\ \A c \in Range(ShotHeader(shotFiles[p].hasYear)) :
                        r[c].n = ShotRow(p, shotFiles[p].hasYear, r["_src"].line)[c].n
        /\ Found = {} => table = EmptyDataFrame

C10_Witness ==
    /\ pc = "loaded"
    /\ Len(registry) > Cardinality(Range(registry))
    /\ \E i, j \in DOMAIN table.rows :
          /\ table.rows[i]["season_type"] = S("REG")
          /\ table.rows[j]["season_type"] = S("PS")
    /\ \E p \in ShotPaths :
          p.year \in Range(years) /\ p.team \in Range(registry) /\ ~shotFiles[p].exists

---------------------------------------------------------------------------
(* Properties of the Combiner *)

Written == outputFile \notin {NoFile, StaleFile}

\* the row of the directory a line of the output file was read from
Origin(src) == baseDir.files[src.file].df.rows[src.line]

NumLess(a, b) == ~isna(a) /\ (isna(b) \/ a.n < b.n)
NumSame(a, b) == (isna(a) /\ isna(b)) \/ (~isna(a) /\ ~isna(b) /\ a.n = b.n)

KeySame(a, b) ==
    /\ NumSame(a["year"], b["year"]) /\ NumSame(a["month"], b["month"])
    /\ NumSame(a["day"], b["day"]) /\ NumSame(a["SHOT_ID"], b["SHOT_ID"])

KeyLess(a, b) ==
    \/ NumLess(a["year"], b["year"])
    \/ /\ NumSame(a["year"], b["year"])
       /\ \/ NumLess(a["month"], b["month"])
          \/ /\ NumSame(a["month"], b["month"])
             /\ \/ NumLess(a["day"], b["day"])
                \/ /\ NumSame(a["day"], b["day"])
                   /\ NumLess(a["SHOT_ID"], b["SHOT_ID"])

\* s was read before t: an earlier file, or an earlier line of the same file
ReadBefore(s, t) == s.file < t.file \/ (s.file = t.file /\ s.line < t.line)

\* C6: the lines of the output file are in non-decreasing order of (year,
\* month, day, SHOT_ID), a missing value counting as greater than every
\* number, and lines with equal keys are in the order they were read in.
C6_SortedAndStable ==
    (pc = "combined" /\ Written) =>
        \A j \in 1..(Len(outputFile.src) - 1) :
            LET a == Origin(outputFile.src[j])
                b == Origin(outputFile.src[j + 1])
            IN  \/ KeyLess(a, b)
                \/ KeySame(a, b) /\ ReadBefore(outputFile.src[j], outputFile.src[j + 1])

C6_Witness ==
    /\ pc = "combined" /\ Written
    /\ \E j \in 1..(Len(outputFile.src) - 1) :
          KeySame(Origin(outputFile.src[j]), Origin(outputFile.src[j + 1]))
    /\ \E j \in 1..(Len(outputFile.src) - 1) :
          ReadBefore(outputFile.src[j + 1], outputFile.src[j])

ReadableRows ==
    {<<f, j>> \in (DOMAIN baseDir.files) \X (1..MaxCsvRows) :
        baseDir.files[f].readable /\ j \in DOMAIN baseDir.files[f].df.rows}

\* C7: a file that cannot be read is skipped and the others are still read:
\* if any file can be read the output file is written, and it holds every
\* row of the readable files once and nothing else.
C7_UnreadableFileIsSkipped ==
    pc = "combined" =>
        /\ (\E f \in DOMAIN baseDir.files : baseDir.files[f].readable) => Written
        /\ Written =>
              /\ Len(outputFile.lines) = Cardinality(ReadableRows)
              /\ \A fj \in ReadableRows :
                    Cardinality({k \in DOMAIN outputFile.src :
                        outputFile.src[k] = [file |-> fj[1], line |-> fj[2]]}) = 1
              /\ \A k \in DOMAIN outputFile.src :
                    <<outputFile.src[k].file, outputFile.src[k].line>> \in ReadableRows

C7_Witness ==
    /\ pc = "combined" /\ Written
    /\ Len(baseDir.files) >= 2
    /\ ~baseDir.files[1].readable
    /\ Len(outputFile.lines) >= 2

NoneRead == \A f \in DOMAIN baseDir.files : ~baseDir.files[f].readable

\* C8: a run that finds no file, or reads none, ends normally and leaves the
\* output file as it was, absent or not; the run changes the output file
\* only if it read a file.
C8_NothingReadNothingWritten ==
    [][/\ (pc = "combine" /\ NoneRead) => (pc' = "combined" /\ outputFile' = outputFile)
       /\ outputFile' # outputFile => ~NoneRead]_vars

C8_Witness ==
    /\ pc = "combined"
    /\ Len(baseDir.files) >= 2
    /\ NoneRead
    /\ outputFile = StaleFile

=============================================================================
